---- MODULE Spec2Model ----
(***************************************************************************)
(* The SQLite-backed dialog history of the Vanilka bot                     *)
(* (src/src/storage/sqlite_history.py) and the part of main()              *)
(* (src/src/main.py) that owns its connection.                             *)
(*                                                                         *)
(* The store keeps ONE aiosqlite connection (self._db).  Every coroutine   *)
(* of the process shares it, hence shares its single open transaction:     *)
(* `conn` is what a statement run on the connection sees (committed data   *)
(* plus the pending changes), `disk` is what is committed.  A method is    *)
(* modelled one await at a time: the frame pc[t] of task t says which      *)
(* await of which method it is suspended at.                               *)
(***************************************************************************)
EXTENDS Integers, Sequences, FiniteSets, TLC

\* ------------------------------------------------------------ bounds
\* At most MaxAdds add_message calls get as far as their INSERT.
MaxAdds == 3
\* The clock counts calendar days 0..MaxDay.
MaxDay == 1
\* max_messages is drawn from 0..MaxWindow at construction.
MaxWindow == 2
\* At most MaxHandles connections are open at a time.
MaxHandles == 2

\* ------------------------------------------------------------ inputs
UserIds == {1, 2}
Roles == {"user", "assistant"}
\* A role outside Literal["user", "assistant"].
BadRoles == {"system"}
\* The texts the callers send: the k-th add_message call that gets as far as its
\* INSERT sends Texts[k], so the texts of different calls are distinct.
Texts == <<"a", "b", "c", "d", "e", "f", "g", "h">>
\* username: str | None.  None is {}, a string s is {s}.
None == {}
Some(s) == {s}
Usernames == {None, Some(""), Some("alice"), Some("bob")}
Tasks == {1, 2}

VARIABLES
  max_messages, \* self._max_messages
  db,           \* self._db is not None
  handles,      \* connections opened and not closed
  conn,         \* the tables as seen through the connection
  disk,         \* the committed tables
  now,          \* the current day
  pc,           \* task -> frame of the method it is suspended in
  ret,          \* task -> what its last method call returned or raised
  log,          \* user -> (role, content) of the add_message calls that returned since the user's last clear
  sent,         \* number of add_message calls that got as far as their INSERT
  failed,       \* texts of the add_message calls that raised after their call began
  mainPc,       \* position of main()
  initDone,     \* main(): dialog_history.init() has returned
  closeCalls,   \* main(): number of dialog_history.close() calls
  history,      \* DialogHistory._history: user -> list of Message
  memRet        \* the last call made on the DialogHistory, with both stores' answers

vars == <<max_messages, db, handles, conn, disk, now, pc, ret, log,
          sent, failed, mainPc, initDone, closeCalls, history, memRet>>

storeVars == <<max_messages, db, handles, conn, disk, now, pc, ret, log,
               sent, failed>>

mainVars == <<mainPc, initDone, closeCalls>>

memVars == <<history, memRet>>

\* ------------------------------------------------------------ SQL

\* CREATE_TABLES_SQL on a new file: both tables empty, sqlite_sequence at 0.
EmptyTables == [users |-> {}, messages |-> {}, seq |-> 0]

RECURSIVE SortAsc(_)
\* ORDER BY id ASC over a set of integers.
SortAsc(S) ==
  IF S = {} THEN <<>>
  ELSE LET m == CHOOSE x \in S : \A y \in S : x <= y
       IN <<m>> \o SortAsc(S \ {m})

\* COALESCE(a, b): the first argument that is not NULL.
Coalesce(a, b) == IF a # None THEN a ELSE b

\* UpsertUserSql gone wrong: INSERT OR REPLACE, which writes the whole row anew.
UpsertUserSqlReplace(t, u, name, day) ==
  [t EXCEPT !.users = {r \in @ : r.user_id # u} \cup
     {[user_id |-> u, username |-> name, first_seen |-> day, last_seen |-> day]}]

\* INSERT INTO users ... ON CONFLICT(user_id) DO UPDATE SET username = COALESCE(...), last_seen = now
UpsertUserSql(t, u, name, day) ==
  IF \E r \in t.users : r.user_id = u
  THEN [t EXCEPT !.users =
          { IF r.user_id = u
            THEN [r EXCEPT !.username = Coalesce(name, r.username), !.last_seen = day]
            ELSE r : r \in t.users }]
  ELSE [t EXCEPT !.users = @ \cup
          {[user_id |-> u, username |-> name, first_seen |-> day, last_seen |-> day]}]

\* INSERT INTO messages (user_id, role, content): id from AUTOINCREMENT,
\* created_at from its DEFAULT.  No PRAGMA foreign_keys: user_id is not checked.
InsertMessageSql(t, u, role, content, day) ==
  [t EXCEPT !.seq = @ + 1,
            !.messages = @ \cup {[id |-> t.seq + 1, user_id |-> u, role |-> role,
                                  content |-> content, created_at |-> day]}]

\* LastIds gone wrong: ORDER BY id ASC, which keeps the first n ids.
LastIdsAscending(t, u, n) ==
  LET ids == {m.id : m \in {x \in t.messages : x.user_id = u}}
  IN IF n < 0 THEN ids
     ELSE {i \in ids : Cardinality({j \in ids : j < i}) < n}

\* SELECT id FROM messages WHERE user_id = u ORDER BY id DESC LIMIT n
\* (a negative LIMIT is no limit).
LastIds(t, u, n) ==
  LET ids == {m.id : m \in {x \in t.messages : x.user_id = u}}
  IN IF n < 0 THEN ids
     ELSE {i \in ids : Cardinality({j \in ids : j > i}) < n}

\* TrimSql gone wrong: the LIMIT is one too large.
TrimSqlOneMore(t, u, n) ==
  [t EXCEPT !.messages = {m \in @ : ~(m.user_id = u /\ m.id \notin
     {i \in {x.id : x \in {y \in t.messages : y.user_id = u}} :
        Cardinality({j \in {x.id : x \in {y \in t.messages : y.user_id = u}} : j > i}) < n + 1})}]

\* TrimSql gone wrong: the subquery has no WHERE user_id = u and selects the last
\* n ids of the whole table.
TrimSqlAnyUser(t, u, n) ==
  [t EXCEPT !.messages = {m \in @ : ~(m.user_id = u /\ m.id \notin
     {i \in {x.id : x \in t.messages} :
        n < 0 \/ Cardinality({j \in {x.id : x \in t.messages} : j > i}) < n})}]

\* DELETE FROM messages WHERE user_id = u AND id NOT IN (the last n ids of u)
TrimSql(t, u, n) ==
  [t EXCEPT !.messages = {m \in @ : ~(m.user_id = u /\ m.id \notin LastIds(t, u, n))}]

\* DeleteMessagesSql gone wrong: the user's row goes with the messages.
DeleteMessagesAndUserSql(t, u) ==
  [t EXCEPT !.messages = {m \in @ : m.user_id # u},
            !.users = {r \in @ : r.user_id # u}]

\* DELETE FROM messages WHERE user_id = u
DeleteMessagesSql(t, u) ==
  [t EXCEPT !.messages = {m \in @ : m.user_id # u}]

\* SELECT role, content FROM messages WHERE user_id = u ORDER BY id ASC
SelectHistory(t, u) ==
  LET rows == {m \in t.messages : m.user_id = u}
      ids == SortAsc({m.id : m \in rows})
      row(i) == CHOOSE m \in rows : m.id = i
  IN [k \in 1..Len(ids) |-> [role |-> row(ids[k]).role, content |-> row(ids[k]).content]]

\* SELECT user_id FROM users: user_id is the table's rowid, and the scan yields
\* the rows in rowid order.
SelectUserIds(t) == SortAsc({r.user_id : r \in t.users})

\* SELECT COUNT(*) FROM messages WHERE user_id = u
CountMessages(t, u) == Cardinality({m \in t.messages : m.user_id = u})

\* SELECT COUNT(*) FROM users
CountUsers(t) == Cardinality(t.users)

\* SELECT COUNT(*) FROM messages
CountAllMessages(t) == Cardinality(t.messages)

\* SELECT COUNT(*) FROM messages WHERE role = 'user'
CountUserMessages(t) == Cardinality({m \in t.messages : m.role = "user"})

\* CountActiveToday gone wrong: COUNT(*) in place of COUNT(DISTINCT user_id).
CountActiveTodayRows(t, day) ==
  Cardinality({x \in t.messages : x.created_at >= day})

\* SELECT COUNT(DISTINCT user_id) FROM messages WHERE created_at >= date('now')
CountActiveToday(t, day) ==
  Cardinality({m.user_id : m \in {x \in t.messages : x.created_at >= day}})

\* ------------------------------------------------------------ frames

Idle == [at |-> "idle", u |-> 0, arg |-> <<>>, id |-> 0, acc |-> <<>>]
NoRet == [op |-> "none", u |-> 0, err |-> "", val |-> <<>>]
Frame(at, u, arg, id, acc) == [at |-> at, u |-> u, arg |-> arg, id |-> id, acc |-> acc]
Ret(op, u, err, val) == [op |-> op, u |-> u, err |-> err, val |-> val]

\* The `assert self._db is not None` every method starts with.
DbAsserted == db

Raise(t, op, u, err) ==
  /\ ret' = [ret EXCEPT ![t] = Ret(op, u, err, <<>>)]
  /\ pc' = [pc EXCEPT ![t] = Idle]

Return(t, op, u, val) ==
  /\ ret' = [ret EXCEPT ![t] = Ret(op, u, "", val)]
  /\ pc' = [pc EXCEPT ![t] = Idle]

Suspend(t, at, u, arg, id, acc) ==
  /\ pc' = [pc EXCEPT ![t] = Frame(at, u, arg, id, acc)]
  /\ ret' = [ret EXCEPT ![t] = NoRet]

\* CommitSql gone wrong: the commit is missing.
CommitSqlMissing(c, d) == d

\* await self._db.commit(): the connection's whole pending transaction, whoever
\* wrote it, becomes the committed state.
CommitSql(c, d) == c

\* ------------------------------------------------------------ init / close

\* init(): connect, CREATE TABLE IF NOT EXISTS, commit.  The new connection sees
\* the committed tables.
InitStore ==
  /\ db' = TRUE
  /\ handles' = handles + 1
  /\ conn' = disk
  /\ UNCHANGED disk

\* close(): `if self._db:` close it and forget it; closing rolls the pending
\* transaction back.  Without a connection it does nothing.
CloseStore ==
  /\ db' = FALSE
  /\ handles' = IF db THEN handles - 1 ELSE handles
  /\ conn' = IF db THEN disk ELSE conn
  /\ UNCHANGED disk

\* The owner of the store opens it when it is not open.
StoreInit(t) ==
  /\ pc[t] = Idle
  /\ ~db
  /\ InitStore
  /\ Return(t, "init", 0, <<>>)
  /\ UNCHANGED <<max_messages, now, log, sent, failed, mainVars, memVars>>

StoreClose(t) ==
  /\ pc[t] = Idle
  /\ CloseStore
  /\ Return(t, "close", 0, <<>>)
  /\ UNCHANGED <<max_messages, now, log, sent, failed, mainVars, memVars>>

\* init() on a store that is open: init() does not look at self._db, it connects
\* and assigns the new connection over the old one, which nothing closes.
StoreInitAgain(t) ==
  /\ pc[t] = Idle
  /\ db
  /\ handles < MaxHandles
  /\ InitStore
  /\ Return(t, "init", 0, <<>>)
  /\ UNCHANGED <<max_messages, now, log, sent, failed, mainVars, memVars>>

\* ------------------------------------------------------------ upsert_user

UpsertExecute(t, u, name) ==
  /\ pc[t] = Idle
  /\ IF DbAsserted
     THEN /\ conn' = UpsertUserSql(conn, u, name, now)
          /\ Suspend(t, "upsert:commit", u, name, 0, <<>>)
     ELSE /\ Raise(t, "upsert_user", u, "AssertionError")
          /\ UNCHANGED conn
  /\ UNCHANGED <<max_messages, db, handles, disk, now, log, sent, failed, mainVars, memVars>>

UpsertCommit(t) ==
  /\ pc[t].at = "upsert:commit"
  /\ disk' = CommitSql(conn, disk)
  /\ Return(t, "upsert_user", pc[t].u, <<>>)
  /\ UNCHANGED <<max_messages, db, handles, conn, now, log, sent, failed, mainVars, memVars>>

\* ------------------------------------------------------------ add_message

\* RoleHintHolds gone wrong: the class is not decorated.
RoleHintUnchecked(role) == TRUE

\* @beartype on the class: role: Literal["user", "assistant"] is checked when the
\* method is called, before its body runs.
RoleHintHolds(role) == role \in Roles

AddExecuteInsert(t, u, role, content) ==
  /\ pc[t] = Idle
  /\ sent < MaxAdds
  /\ IF ~RoleHintHolds(role)
     THEN /\ Raise(t, "add_message", u, "BeartypeCallHintParamViolation")
          /\ UNCHANGED <<conn, sent>>
     ELSE IF ~DbAsserted
     THEN /\ Raise(t, "add_message", u, "AssertionError")
          /\ UNCHANGED <<conn, sent>>
     ELSE IF role \notin Roles
     THEN \* CHECK(role IN ('user', 'assistant')) fails the INSERT: no row
          /\ Raise(t, "add_message", u, "IntegrityError")
          /\ UNCHANGED <<conn, sent>>
     ELSE /\ conn' = InsertMessageSql(conn, u, role, content, now)
          /\ sent' = sent + 1
          /\ Suspend(t, "add:trim", u, <<role, content>>, conn.seq + 1, <<>>)
  /\ UNCHANGED <<max_messages, db, handles, disk, now, log, failed, mainVars, memVars>>

AddExecuteTrim(t) ==
  /\ pc[t].at = "add:trim"
  /\ conn' = TrimSql(conn, pc[t].u, max_messages)
  /\ Suspend(t, "add:commit", pc[t].u, pc[t].arg, pc[t].id, <<>>)
  /\ UNCHANGED <<max_messages, db, handles, disk, now, log, sent, failed, mainVars, memVars>>

AddCommit(t) ==
  /\ pc[t].at = "add:commit"
  /\ disk' = CommitSql(conn, disk)
  /\ Return(t, "add_message", pc[t].u, <<>>)
  /\ log' = [log EXCEPT ![pc[t].u] =
               Append(@, [role |-> pc[t].arg[1], content |-> pc[t].arg[2]])]
  /\ UNCHANGED <<max_messages, db, handles, conn, now, sent, failed, mainVars, memVars>>

\* ------------------------------------------------------------ clear

ClearExecute(t, u) ==
  /\ pc[t] = Idle
  /\ IF DbAsserted
     THEN /\ conn' = DeleteMessagesSql(conn, u)
          /\ Suspend(t, "clear:commit", u, <<>>, 0, <<>>)
     ELSE /\ Raise(t, "clear", u, "AssertionError")
          /\ UNCHANGED conn
  /\ UNCHANGED <<max_messages, db, handles, disk, now, log, sent, failed, mainVars, memVars>>

ClearCommit(t) ==
  /\ pc[t].at = "clear:commit"
  /\ disk' = CommitSql(conn, disk)
  /\ Return(t, "clear", pc[t].u, <<>>)
  /\ log' = [log EXCEPT ![pc[t].u] = <<>>]
  /\ UNCHANGED <<max_messages, db, handles, conn, now, sent, failed, mainVars, memVars>>

\* ------------------------------------------------------------ reads

GetHistory(t, u) ==
  /\ pc[t] = Idle
  /\ IF DbAsserted
     THEN Return(t, "get_history", u, SelectHistory(conn, u))
     ELSE Raise(t, "get_history", u, "AssertionError")
  /\ UNCHANGED <<max_messages, db, handles, conn, disk, now, log, sent, failed, mainVars, memVars>>

GetMessageCount(t, u) ==
  /\ pc[t] = Idle
  /\ IF DbAsserted
     THEN Return(t, "get_message_count", u, CountMessages(conn, u))
     ELSE Raise(t, "get_message_count", u, "AssertionError")
  /\ UNCHANGED <<max_messages, db, handles, conn, disk, now, log, sent, failed, mainVars, memVars>>

GetAllUserIds(t) ==
  /\ pc[t] = Idle
  /\ IF DbAsserted
     THEN Return(t, "get_all_user_ids", 0, SelectUserIds(conn))
     ELSE Raise(t, "get_all_user_ids", 0, "AssertionError")
  /\ UNCHANGED <<max_messages, db, handles, conn, disk, now, log, sent, failed, mainVars, memVars>>

\* get_stats(): four queries, one await each; acc holds the counts read so far.
GetStatsUsers(t) ==
  /\ pc[t] = Idle
  /\ IF DbAsserted
     THEN Suspend(t, "stats:total_messages", 0, <<>>, 0, <<CountUsers(conn)>>)
     ELSE Raise(t, "get_stats", 0, "AssertionError")
  /\ UNCHANGED <<max_messages, db, handles, conn, disk, now, log, sent, failed, mainVars, memVars>>

GetStatsMessages(t) ==
  /\ pc[t].at = "stats:total_messages"
  /\ Suspend(t, "stats:user_messages", 0, <<>>, 0, Append(pc[t].acc, CountAllMessages(conn)))
  /\ UNCHANGED <<max_messages, db, handles, conn, disk, now, log, sent, failed, mainVars, memVars>>

GetStatsUserMessages(t) ==
  /\ pc[t].at = "stats:user_messages"
  /\ Suspend(t, "stats:active_today", 0, <<>>, 0, Append(pc[t].acc, CountUserMessages(conn)))
  /\ UNCHANGED <<max_messages, db, handles, conn, disk, now, log, sent, failed, mainVars, memVars>>

GetStatsActiveToday(t) ==
  /\ pc[t].at = "stats:active_today"
  /\ Return(t, "get_stats", 0, [total_users |-> pc[t].acc[1], total_messages |-> pc[t].acc[2],
             user_messages |-> pc[t].acc[3],
             active_today |-> CountActiveToday(conn, now)])
  /\ UNCHANGED <<max_messages, db, handles, conn, disk, now, log, sent, failed, mainVars, memVars>>

\* ------------------------------------------------------------ the clock

\* Midnight: datetime('now') and date('now') move to the next day.
Tick ==
  /\ now < MaxDay
  /\ now' = now + 1
  /\ UNCHANGED <<max_messages, db, handles, conn, disk, pc, ret, log, sent, failed, mainVars, memVars>>

\* ------------------------------------------------------------ DialogHistory

\* No call has been made on the in-memory DialogHistory.
NoMemRet == [op |-> "none", u |-> 0, val |-> <<>>, sql |-> <<>>]

\* messages[-n:]: the last n elements for n > 0, all of them when there are
\* fewer; -0 is 0, and messages[0:] is the whole list.
SliceLast(messages, n) ==
  IF n = 0 \/ n >= Len(messages) THEN messages
  ELSE SubSeq(messages, Len(messages) - n + 1, Len(messages))

\* DialogHistory.add_message: append, then `if len(messages) > self.max_messages`
\* keep messages[-self.max_messages:].
DialogHistoryAddMessage(h, u, role, content, n) ==
  LET messages == Append(h[u], [role |-> role, content |-> content])
  IN IF Len(messages) > n
     THEN [h EXCEPT ![u] = SliceLast(messages, n)]
     ELSE [h EXCEPT ![u] = messages]

\* DialogHistory.get_history: one {"role", "content"} dict per Message.
DialogHistoryGetHistory(h, u) ==
  [k \in 1..Len(h[u]) |-> [role |-> h[u][k].role, content |-> h[u][k].content]]

\* DialogHistory.clear
DialogHistoryClear(h, u) == [h EXCEPT ![u] = <<>>]

\* DialogHistory.get_message_count
DialogHistoryGetMessageCount(h, u) == Len(h[u])

\* The methods both stores have.
CoreOps == {"add_message", "clear", "get_history", "get_message_count"}

\* The caller has an answer of the SQLite store that it has not yet asked the
\* DialogHistory for.
Answered(t) == pc[t] = Idle /\ ret[t].op \in CoreOps /\ ret[t].err = ""

\* The caller makes on the DialogHistory the call that the SQLite store has just
\* answered, with the same arguments, and keeps both answers.
MemCall(t, op, h, val) ==
  /\ history' = h
  /\ memRet' = [op |-> op, u |-> ret[t].u, val |-> val, sql |-> ret[t].val]
  /\ ret' = [ret EXCEPT ![t] = NoRet]
  /\ UNCHANGED <<max_messages, db, handles, conn, disk, now, pc, log, sent, failed, mainVars>>

MemAddMessage(t) ==
  /\ Answered(t)
  /\ ret[t].op = "add_message"
  /\ LET u == ret[t].u
         last == log[u][Len(log[u])]
     IN MemCall(t, "add_message",
                DialogHistoryAddMessage(history, u, last.role, last.content, max_messages),
                <<>>)

MemClear(t) ==
  /\ Answered(t)
  /\ ret[t].op = "clear"
  /\ MemCall(t, "clear", DialogHistoryClear(history, ret[t].u), <<>>)

MemGetHistory(t) ==
  /\ Answered(t)
  /\ ret[t].op = "get_history"
  /\ MemCall(t, "get_history", history, DialogHistoryGetHistory(history, ret[t].u))

MemGetMessageCount(t) ==
  /\ Answered(t)
  /\ ret[t].op = "get_message_count"
  /\ MemCall(t, "get_message_count", history,
             DialogHistoryGetMessageCount(history, ret[t].u))

\* ------------------------------------------------------------ specifications

InitStoreState ==
  /\ max_messages \in 0..MaxWindow
  /\ db = FALSE
  /\ handles = 0
  /\ conn = EmptyTables
  /\ disk = EmptyTables
  /\ now = 0
  /\ pc = [t \in Tasks |-> Idle]
  /\ ret = [t \in Tasks |-> NoRet]
  /\ log = [u \in UserIds |-> <<>>]
  /\ sent = 0
  /\ failed = {}
  /\ history = [u \in UserIds |-> <<>>]
  /\ memRet = NoMemRet

\* A caller that owns the store and calls its methods one after another.
InitSeq ==
  /\ InitStoreState
  /\ mainPc = "none"
  /\ initDone = FALSE
  /\ closeCalls = 0

\* The writing methods as a handler calls them: N are the usernames it passes, U
\* the users whose messages it records, R the roles it passes.
Writes(t, N, U, R) ==
  \/ \E u \in UserIds, name \in N : UpsertExecute(t, u, name)
  \/ UpsertCommit(t)
  \/ \E u \in U, role \in R :
       AddExecuteInsert(t, u, role, Texts[sent + 1])
  \/ AddExecuteTrim(t)
  \/ AddCommit(t)
  \/ \E u \in UserIds : ClearExecute(t, u)
  \/ ClearCommit(t)

Reads(t) ==
  \/ \E u \in UserIds : GetHistory(t, u)
  \/ \E u \in UserIds : GetMessageCount(t, u)

Stats(t) ==
  \/ GetStatsUsers(t)
  \/ GetStatsMessages(t)
  \/ GetStatsUserMessages(t)
  \/ GetStatsActiveToday(t)

NextSeq ==
  \/ StoreInit(1)
  \/ StoreClose(1)
  \/ Writes(1, {Some("alice")}, UserIds, Roles \cup BadRoles)
  \/ Reads(1)

SpecSeq == InitSeq /\ [][NextSeq]_vars

\* ------------------------------------------------------------ concurrent handlers

\* The dispatcher runs one handler task per incoming message; all of them call
\* the one store.  Each step is one statement run on the shared connection, in
\* the order the connection's worker thread takes them from its queue.
InitConc ==
  /\ InitSeq

NextConc ==
  \/ StoreInit(1)
  \/ \E t \in Tasks : Writes(t, {None}, {1}, Roles)
  \/ \E t \in Tasks : Reads(t)

SpecConc == InitConc /\ [][NextConc]_vars

\* ------------------------------------------------------------ concurrent appends

\* Handler tasks that only append: the steps of their add_message calls
\* interleave in every order on the shared connection.
NextAppend ==
  \/ StoreInit(1)
  \/ \E t \in Tasks, u \in UserIds, role \in Roles :
       AddExecuteInsert(t, u, role, Texts[sent + 1])
  \/ \E t \in Tasks : AddExecuteTrim(t)
  \/ \E t \in Tasks : AddCommit(t)

SpecAppend == InitSeq /\ [][NextAppend]_vars

\* ------------------------------------------------------------ storage errors

\* A statement of add_message raises (disk full, I/O error, database locked).
\* add_message has no try/except and no rollback: the exception leaves the method
\* and the connection keeps its open transaction.  For some errors SQLite itself
\* rolls the whole transaction back (rolledBack), for the others only the failed
\* statement is undone.
AddInsertRaises(t, u, role, content) ==
  /\ pc[t] = Idle
  /\ sent < MaxAdds
  /\ RoleHintHolds(role)
  /\ DbAsserted
  /\ sent' = sent + 1
  /\ failed' = failed \cup {content}
  /\ Raise(t, "add_message", u, "OperationalError")
  /\ UNCHANGED <<max_messages, db, handles, conn, disk, now, log, mainVars, memVars>>

AddTrimRaises(t, rolledBack) ==
  /\ pc[t].at = "add:trim"
  /\ conn' = IF rolledBack THEN disk ELSE conn
  /\ failed' = failed \cup {pc[t].arg[2]}
  /\ Raise(t, "add_message", pc[t].u, "OperationalError")
  /\ UNCHANGED <<max_messages, db, handles, disk, now, log, sent, mainVars, memVars>>

AddCommitRaises(t, rolledBack) ==
  /\ pc[t].at = "add:commit"
  /\ conn' = IF rolledBack THEN disk ELSE conn
  /\ failed' = failed \cup {pc[t].arg[2]}
  /\ Raise(t, "add_message", pc[t].u, "OperationalError")
  /\ UNCHANGED <<max_messages, db, handles, disk, now, log, sent, mainVars, memVars>>

NextFault ==
  \/ StoreInit(1)
  \/ StoreClose(1)
  \/ Writes(1, {None}, UserIds, Roles)
  \/ Reads(1)
  \/ \E u \in UserIds, role \in Roles : AddInsertRaises(1, u, role, Texts[sent + 1])
  \/ \E rolledBack \in BOOLEAN : AddTrimRaises(1, rolledBack)
  \/ \E rolledBack \in BOOLEAN : AddCommitRaises(1, rolledBack)

SpecFault == InitSeq /\ [][NextFault]_vars

\* ------------------------------------------------------------ usernames

\* A caller that passes every kind of username.
NextUsers ==
  \/ StoreInit(1)
  \/ StoreClose(1)
  \/ Writes(1, Usernames, {1}, {"user"})
  \/ Tick

SpecUsers == InitSeq /\ [][NextUsers]_vars

\* ------------------------------------------------------------ user records

\* A caller that registers users over several days, records and clears the
\* messages of one of them, and lists the users for a broadcast.
NextRecords ==
  \/ StoreInit(1)
  \/ Writes(1, {None, Some("alice")}, {1}, {"user"})
  \/ GetAllUserIds(1)
  \/ Tick

SpecRecords == InitSeq /\ [][NextRecords]_vars

\* ------------------------------------------------------------ init and close, any order

\* A caller that calls init() and close() in any order between its other calls.
NextLife ==
  \/ StoreInit(1)
  \/ StoreInitAgain(1)
  \/ StoreClose(1)
  \/ Writes(1, {None}, {1}, {"user"})
  \/ Reads(1)

SpecLife == InitSeq /\ [][NextLife]_vars

\* ------------------------------------------------------------ both stores

\* A caller that opens the SQLite store and then makes every call on both stores:
\* first on the SQLite store, then the same call on the DialogHistory.
\* The caller makes its next call on the SQLite store: the store is open and
\* the call before has been made on both stores.
NextCall(t) == db /\ ~Answered(t)

NextBoth ==
  \/ StoreInit(1)
  \/ \E u \in UserIds, role \in Roles :
       NextCall(1) /\ AddExecuteInsert(1, u, role, Texts[sent + 1])
  \/ \E u \in UserIds : NextCall(1) /\ ClearExecute(1, u)
  \/ \E u \in UserIds : NextCall(1) /\ GetHistory(1, u)
  \/ \E u \in UserIds : NextCall(1) /\ GetMessageCount(1, u)
  \/ AddExecuteTrim(1)
  \/ AddCommit(1)
  \/ ClearCommit(1)
  \/ MemAddMessage(1)
  \/ MemClear(1)
  \/ MemGetHistory(1)
  \/ MemGetMessageCount(1)

SpecBoth == InitSeq /\ [][NextBoth]_vars

\* ------------------------------------------------------------ statistics

\* A store with the largest window, written to over several days and asked for
\* its statistics between the writes.
InitStats ==
  /\ InitSeq
  /\ max_messages = MaxWindow

NextStats ==
  \/ StoreInit(1)
  \/ Writes(1, {None}, UserIds, Roles)
  \/ Stats(1)
  \/ Tick

SpecStats == InitStats /\ [][NextStats]_vars

\* ------------------------------------------------------------ main()

\* The statements of main() after dialog_history.init() that can raise, in order;
\* none of them is inside a try.
StartupSteps ==
  <<"LLMService", "TranscribeService", "knowledge_base_service.load",
    "setup_services", "Bot", "set_chat_menu_button">>

AfterStartup(i) == IF i < Len(StartupSteps) THEN StartupSteps[i + 1] ELSE "start_polling"

InitMain ==
  /\ InitStoreState
  /\ mainPc = "load_config"
  /\ initDone = FALSE
  /\ closeCalls = 0

\* config = load_config(); a ValueError ends the process with sys.exit(1).
MainLoadConfig ==
  /\ mainPc = "load_config"
  /\ mainPc' \in {"init", "exited"}
  /\ UNCHANGED <<storeVars, initDone, closeCalls, memVars>>

\* await dialog_history.init()
MainInit ==
  /\ mainPc = "init"
  /\ InitStore
  /\ initDone' = TRUE
  /\ mainPc' = StartupSteps[1]
  /\ UNCHANGED <<max_messages, now, pc, ret, log, sent, failed, closeCalls, memVars>>

\* init() raises: in aiosqlite.connect (no connection), or in executescript or
\* commit (self._db already holds the open connection).
MainInitRaises ==
  /\ mainPc = "init"
  /\ mainPc' = "raised"
  /\ \/ UNCHANGED <<db, handles, conn>>
     \/ (db' = TRUE /\ handles' = handles + 1 /\ conn' = disk)
  /\ UNCHANGED <<max_messages, disk, now, pc, ret, log, sent, failed, initDone, closeCalls, memVars>>

\* One statement between init() and the try: it completes, or it raises and the
\* exception leaves main().
MainStartup ==
  /\ \E i \in 1..Len(StartupSteps) :
       /\ mainPc = StartupSteps[i]
       /\ mainPc' \in {AfterStartup(i), "raised"}
  /\ UNCHANGED <<storeVars, initDone, closeCalls, memVars>>

\* try: await dp.start_polling(bot) returns or raises once the handlers are done.
MainPollingEnds ==
  /\ mainPc = "start_polling"
  /\ \A t \in Tasks : pc[t] = Idle
  /\ mainPc' = "finally"
  /\ UNCHANGED <<storeVars, initDone, closeCalls, memVars>>

\* finally: await dialog_history.close()
MainFinallyClose ==
  /\ mainPc = "finally"
  /\ CloseStore
  /\ closeCalls' = closeCalls + 1
  /\ mainPc' = "bot.session.close"
  /\ UNCHANGED <<max_messages, now, pc, ret, log, sent, failed, initDone, memVars>>

\* finally: await bot.session.close()
MainSessionClose ==
  /\ mainPc = "bot.session.close"
  /\ mainPc' \in {"done", "raised"}
  /\ UNCHANGED <<storeVars, initDone, closeCalls, memVars>>

\* While main() is polling, the handlers call the store.
Handlers ==
  /\ mainPc = "start_polling"
  /\ (Writes(1, {None}, UserIds, Roles) \/ Reads(1))

NextMain ==
  \/ MainLoadConfig
  \/ MainInit
  \/ MainInitRaises
  \/ MainStartup
  \/ Handlers
  \/ MainPollingEnds
  \/ MainFinallyClose
  \/ MainSessionClose

SpecMain == InitMain /\ [][NextMain]_vars

MainEnded == mainPc \in {"done", "raised", "exited"}

\* ------------------------------------------------------------ properties

AllIdle == \A t \in Tasks : pc[t] = Idle

Returned(t, op) == pc[t] = Idle /\ ret[t].op = op /\ ret[t].err = ""

ReturnedFor(t, op, u) == Returned(t, op) /\ ret[t].u = u

\* The last min(Len(s), n) elements of s.
LastN(s, n) ==
  LET k == IF Len(s) < n THEN Len(s) ELSE n
  IN [i \in 1..k |-> s[Len(s) - k + i]]

\* C1: for a positive max_messages, once add_message has returned no user holds
\* more than max_messages messages (of both roles together), and
\* get_message_count never returns more.
C1_BoundedWindow ==
  max_messages > 0 =>
    \A t \in Tasks :
      /\ Returned(t, "add_message") =>
           \A u \in UserIds : CountMessages(conn, u) <= max_messages
      /\ Returned(t, "get_message_count") => ret[t].val <= max_messages

\* A third message of user 1 was appended to a window of two and the oldest is gone.
C1_Witness ==
  /\ max_messages = 2
  /\ ReturnedFor(1, "add_message", 1)
  /\ Len(log[1]) = 3
  /\ CountMessages(conn, 1) = 2

\* C2: between calls, get_history(u) is the last min(n, max_messages) pairs
\* appended for u since its last clear, oldest first; the history a
\* get_history call returns is such a window.
C2_WindowContent ==
  AllIdle =>
    /\ \A u \in UserIds : SelectHistory(conn, u) = LastN(log[u], max_messages)
    /\ \A t \in Tasks, u \in UserIds : ReturnedFor(t, "get_history", u) =>
         ret[t].val = LastN(log[u], max_messages)

\* With a window of one, user 1 appended "a", user 2 "b", user 1 "c", and user 1
\* read back exactly "c".
C2_Witness ==
  /\ max_messages = 1
  /\ ReturnedFor(1, "get_history", 1)
  /\ Len(log[1]) = 2
  /\ Len(log[2]) = 1
  /\ log[2][1].content = "b"
  /\ Len(ret[1].val) = 1
  /\ ret[1].val[1].content = "c"

\* C6: clear(u) on an open store raises nothing; it leaves u without messages
\* (get_history empty, get_message_count 0) and the users table as it was; on a
\* user without messages it changes nothing, so a second clear ends in the state
\* the first one ended in; what it returns with is committed.
C6_Clear ==
  [][\A t \in Tasks :
       /\ \A u \in UserIds : (ClearExecute(t, u) /\ db) =>
            /\ pc'[t].at = "clear:commit"
            /\ SelectHistory(conn', u) = <<>>
            /\ CountMessages(conn', u) = 0
            /\ conn'.users = conn.users
            /\ (CountMessages(conn, u) = 0 => conn' = conn)
       /\ ClearCommit(t) =>
            /\ Returned(t, "clear")'
            /\ SelectHistory(conn', pc[t].u) = <<>>
            /\ CountMessages(conn', pc[t].u) = 0
            /\ conn'.users = conn.users
            /\ disk' = conn']_vars

\* clear returned for a registered user whose messages it removed.
C6_Witness ==
  /\ ReturnedFor(1, "clear", 1)
  /\ log[1] = <<>>
  /\ conn.seq > 0
  /\ conn.messages = {}
  /\ \E r \in conn.users : r.user_id = 1

\* C7: whenever the store is closed between calls, everything readable through
\* the connection is already committed, and init gives the new connection
\* exactly the committed tables: close followed by init reads back the users and
\* messages as they were.
C7_RestartDurability ==
  [][\A t \in Tasks :
       /\ (StoreClose(t) /\ db) => (disk = conn /\ disk' = conn)
       /\ StoreInit(t) => (db' /\ conn' = disk /\ disk' = disk)]_vars

\* The store was reopened and holds users and messages written before.
C7_Witness ==
  /\ Returned(1, "init")
  /\ db
  /\ conn.users # {}
  /\ Cardinality(conn.messages) >= 2

\* C9: with no write in flight, get_stats returns the number of rows of users,
\* the number of stored messages, the number of those with role 'user', and the
\* number of distinct users with a stored message created on the current day.
C9_Stats ==
  [][\A t \in Tasks : GetStatsActiveToday(t) =>
       /\ Returned(t, "get_stats")'
       /\ ret'[t].val.total_users = Cardinality({r.user_id : r \in conn.users})
       /\ ret'[t].val.total_messages = Cardinality({m.id : m \in conn.messages})
       /\ ret'[t].val.user_messages =
            Cardinality({m.id : m \in {x \in conn.messages : x.role = "user"}})
       /\ ret'[t].val.active_today =
            Cardinality({u \in UserIds :
               \E m \in conn.messages : m.user_id = u /\ m.created_at = now})]_vars

\* Two registered users, three messages, two of role 'user', one user active
\* today and one message from yesterday.
C9_Witness ==
  /\ Returned(1, "get_stats")
  /\ ret[1].val = [total_users |-> 2, total_messages |-> 3, user_messages |-> 2,
                   active_today |-> 1]
  /\ \E m \in conn.messages : m.created_at < now

\* C10: add_message with a role outside Literal["user", "assistant"] raises the
\* type-hint violation in the call itself: no statement runs, and the
\* connection's view and the committed tables stay as they were.
C10_RoleRejected ==
  [][\A t \in Tasks, u \in UserIds, role \in BadRoles :
       AddExecuteInsert(t, u, role, Texts[sent + 1]) =>
         /\ pc'[t] = Idle
         /\ ret'[t].op = "add_message"
         /\ ret'[t].err = "BeartypeCallHintParamViolation"
         /\ conn' = conn
         /\ disk' = disk]_vars

\* The call was rejected on an open store that holds messages.
C10_Witness ==
  /\ pc[1] = Idle
  /\ ret[1].op = "add_message"
  /\ ret[1].err = "BeartypeCallHintParamViolation"
  /\ db
  /\ conn.messages # {}

\* C3: for a positive max_messages, what a reader gets from get_message_count(u)
\* or get_history(u), also while an add_message(u) of another task is suspended
\* at one of its awaits, never holds more than max_messages messages.
C3_ReaderWithinWindow ==
  max_messages > 0 =>
  \A t \in Tasks, u \in UserIds :
    /\ ReturnedFor(t, "get_message_count", u) => ret[t].val <= max_messages
    /\ ReturnedFor(t, "get_history", u) => Len(ret[t].val) <= max_messages

\* C4: the message of an add_message call that raised is neither readable
\* through the connection nor committed.
C4_FailedAppendAbsent ==
  \A m \in conn.messages \cup disk.messages : m.content \notin failed

NameOf(t, u) ==
  IF \E r \in t.users : r.user_id = u
  THEN (CHOOSE r \in t.users : r.user_id = u).username
  ELSE None

IsNonEmptyName(name) == name # None /\ name # Some("")

\* C5: upsert_user with a None or empty username leaves a stored non-empty
\* username as it is, and with a non-empty username stores it.
C5_DisplayName ==
  [][\A t \in Tasks, u \in UserIds, name \in Usernames :
       (UpsertExecute(t, u, name) /\ db) =>
         /\ (~IsNonEmptyName(name) /\ IsNonEmptyName(NameOf(conn, u))) =>
              NameOf(conn', u) = NameOf(conn, u)
         /\ IsNonEmptyName(name) => NameOf(conn', u) = name]_vars

\* C11: close() never raises and leaves the store closed, also when called twice
\* or before any init(); after init() the store is open, and whenever a call has
\* returned there is exactly one open connection if the store is open and none
\* if it is closed.
C11_InitCloseIdempotent ==
  /\ \A t \in Tasks :
       /\ (pc[t] = Idle /\ ret[t].op = "close") => (ret[t].err = "" /\ ~db)
       /\ Returned(t, "init") => db
  /\ handles = (IF db THEN 1 ELSE 0)

HasUser(t, u) == \E r \in t.users : r.user_id = u

UserRow(t, u) == CHOOSE r \in t.users : r.user_id = u

\* Every record of tables a is a record of tables b, with the same first_seen.
KeepsUsers(a, b) ==
  \A u \in UserIds :
    HasUser(a, u) => (HasUser(b, u) /\ UserRow(b, u).first_seen = UserRow(a, u).first_seen)

\* C12: upsert_user(u) on an open store leaves exactly one record of u whose
\* last_seen is the current day, and whose first_seen is the current day when u
\* had no record; no step of any method removes a record or changes its
\* first_seen, in the connection's view and in the committed tables; and
\* get_all_user_ids returns the ids of the records, so what it returns only grows.
C12_UserLifecycle ==
  [][/\ KeepsUsers(conn, conn')
     /\ KeepsUsers(disk, disk')
     /\ \A t \in Tasks, u \in UserIds, name \in Usernames :
          (UpsertExecute(t, u, name) /\ db) =>
            /\ Cardinality({r \in conn'.users : r.user_id = u}) = 1
            /\ UserRow(conn', u).last_seen = now
            /\ ~HasUser(conn, u) => UserRow(conn', u).first_seen = now
     /\ \A t \in Tasks : UpsertCommit(t) => disk'.users = conn.users
     /\ \A t \in Tasks : (GetAllUserIds(t) /\ db) =>
          /\ Returned(t, "get_all_user_ids")'
          /\ {ret'[t].val[i] : i \in 1..Len(ret'[t].val)} = {r.user_id : r \in conn.users}
          /\ Len(ret'[t].val) = Cardinality(conn.users)]_vars

\* User 1 was registered on day 0 and again on day 1, their messages were all
\* removed in between, and get_all_user_ids returns both users.
C12_Witness ==
  /\ Returned(1, "get_all_user_ids")
  /\ ret[1].val = <<1, 2>>
  /\ UserRow(conn, 1).first_seen = 0
  /\ UserRow(conn, 1).last_seen = 1
  /\ conn.seq > 0
  /\ conn.messages = {}

\* The sequence identifiers of the messages of u whose add_message has returned:
\* the k-th INSERT of the store sends Texts[k] and gets id k.
InsertedIds(u) ==
  {k \in 1..Len(Texts) : \E i \in 1..Len(log[u]) : log[u][i].content = Texts[k]}

RoleOfInserted(u, k) ==
  (CHOOSE e \in {log[u][i] : i \in 1..Len(log[u])} : e.content = Texts[k]).role

\* C13: when the add_message calls of all tasks, interleaved in any order, have
\* returned, each user holds at most max_messages messages: exactly those with
\* the highest ids among the ones inserted for the user, read back in id order;
\* and they are committed.
C13_ConcurrentAppends ==
  (AllIdle /\ db) =>
    /\ disk = conn
    /\ \A u \in UserIds :
         LET kept == LastN(SortAsc(InsertedIds(u)), max_messages)
         IN /\ CountMessages(conn, u) <= max_messages
            /\ SortAsc({m.id : m \in {x \in conn.messages : x.user_id = u}}) = kept
            /\ SelectHistory(conn, u) =
                 [k \in 1..Len(kept) |->
                    [role |-> RoleOfInserted(u, kept[k]), content |-> Texts[kept[k]]]]

\* With a window of one, two tasks appended for user 1 at the same time: the call
\* that inserted "a" first committed after the call that inserted "b", and "b",
\* the message with the higher id, is the one kept.
C13_Witness ==
  /\ max_messages = 1
  /\ ReturnedFor(1, "add_message", 1)
  /\ ReturnedFor(2, "add_message", 1)
  /\ Len(log[1]) = 2
  /\ log[1][1].content = "b"
  /\ log[1][2].content = "a"
  /\ Len(SelectHistory(conn, 1)) = 1
  /\ SelectHistory(conn, 1)[1].content = "b"

\* C14: for a positive max_messages, in every state, also between the steps of
\* concurrent methods on the shared connection, the committed tables hold at most
\* max_messages messages per user: reopening after a crash at that instant never
\* gives get_message_count(u) > max_messages.
C14_DurableWithinWindow ==
  max_messages > 0 =>
    \A u \in UserIds : CountMessages(disk, u) <= max_messages

\* C15: in every state each stored message belongs to a user with a record, in
\* the connection's view and in the committed tables; and what get_stats returns
\* has active_today <= total_users, and total_messages = 0 when total_users = 0.
C15_MessagesHaveUsers ==
  /\ \A t \in {conn, disk} : \A m \in t.messages : HasUser(t, m.user_id)
  /\ \A t \in Tasks : Returned(t, "get_stats") =>
       /\ ret[t].val.active_today <= ret[t].val.total_users
       /\ ret[t].val.total_users = 0 => ret[t].val.total_messages = 0

\* C16: get_history and get_message_count return the same on the DialogHistory
\* as on the SQLite store, and after every call made on both stores the two hold
\* the same history for every user, for every max_messages >= 0.
C16_SameBehaviour ==
  /\ memRet.op \in {"get_history", "get_message_count"} => memRet.val = memRet.sql
  /\ (db /\ AllIdle /\ ~Answered(1)) =>
       \A u \in UserIds :
         /\ DialogHistoryGetHistory(history, u) = SelectHistory(conn, u)
         /\ DialogHistoryGetMessageCount(history, u) = CountMessages(conn, u)

\* C8: when main() has ended after dialog_history.init() returned,
\* dialog_history.close() has been called exactly once.
C8_HandleReleased ==
  (MainEnded /\ initDone) => closeCalls = 1
====
